---- MODULE Spec2Model ----
(***************************************************************************)
(* Model of the interactive process execution engine of linutil-gui        *)
(* (src/tui/src/gtk_app.rs): CommandRunner, its reader and wait threads,   *)
(* the poll timer and button handlers of open_command_window, and the      *)
(* escape filter strip_ansi.                                               *)
(*                                                                         *)
(* Text is a sequence of code points.  The child's output is drawn from    *)
(* ASCII, for which a String's byte length (output.len()) and its number   *)
(* of chars coincide.  Option<T> is a sequence of length at most one.      *)
(***************************************************************************)
EXTENDS Integers, Sequences, FiniteSets, TLC

(* ------------------------------ bounds -------------------------------- *)
\* number of bytes the child writes to the pty during one session
MaxOut == 2
\* number of kill() calls (Stop clicks / Ctrl+K) in one session
MaxKills == 2
\* number of send_input() calls in one session
MaxInputs == 1
\* number of save_log() calls in one session
MaxSaves == 1
\* length of the enumerated inputs of strip_ansi
MaxLen == 5

(* ----------------------------- characters ----------------------------- *)
ESC == 27
LBRACKET == 91
\* the reader thread's buffer: let mut buf = [0u8; 8192]
BufSize == 8192
\* bytes the modelled child writes: escape and '[' ('[' is plain text, the
\* second char of a CSI sequence and, being in '@'..'~', its final char)
OutBytes == {ESC, LBRACKET}
\* characters of the enumerated strip_ansi inputs: escape, '[', '1', 'm'
FilterChars == {ESC, LBRACKET, 49, 109}
\* "\x1b[31mHello\x1b[0m"
ColouredHello == <<27, 91, 51, 49, 109, 72, 101, 108, 108, 111, 27, 91, 48, 109>>
\* "Hello"
Hello == <<72, 101, 108, 108, 111>>
\* "\x1bXabc"
EscXabc == <<27, 88, 97, 98, 99>>
\* the texts a user types into the input entry (a non-empty one: "a")
InputTexts == {<<97>>}
NEWLINE == 10

None == <<>>
Some(x) == <<x>>

Min(a, b) == IF a < b THEN a ELSE b

\* all sequences over S of length 0..n
SeqsUpTo(S, n) == UNION {[1..k -> S] : k \in 0..n}

IsPrefix(s, t) == Len(s) <= Len(t) /\ SubSeq(t, 1, Len(s)) = s

NoEsc(s) == \A i \in 1..Len(s) : s[i] # ESC

(* ----------------------------- strip_ansi ----------------------------- *)
\* ('@'..='~').contains(&next)
IsCsiFinal(c) == c >= 64 /\ c <= 126

\* the inner while loop: from position i, consume up to and including the
\* first char in '@'..='~'; the result is the position of the next unread char
RECURSIVE SkipCsi(_, _)
SkipCsi(s, i) ==
    IF i > Len(s) THEN i
    ELSE IF IsCsiFinal(s[i]) THEN i + 1
    ELSE SkipCsi(s, i + 1)

\* mutants of AfterEscape: one also swallows the char after a non-CSI escape,
\* one leaves the final char of a CSI sequence in the text
AfterEscape_SkipNext(s, i) ==
    IF i + 1 <= Len(s) /\ s[i + 1] = LBRACKET THEN SkipCsi(s, i + 2) ELSE i + 2

AfterEscape_KeepFinal(s, i) ==
    IF i + 1 <= Len(s) /\ s[i + 1] = LBRACKET
    THEN (IF SkipCsi(s, i + 2) > i + 2 THEN SkipCsi(s, i + 2) - 1 ELSE i + 2)
    ELSE i + 1

\* the body of `if ch == '\u{1b}'` for the escape at position i: the position
\* of the next char the outer loop reads
AfterEscape(s, i) ==
    IF i + 1 <= Len(s) /\ s[i + 1] = LBRACKET THEN SkipCsi(s, i + 2) ELSE i + 1

\* the outer while loop from position i
RECURSIVE StripFrom(_, _)
StripFrom(s, i) ==
    IF i > Len(s) THEN <<>>
    ELSE IF s[i] = ESC THEN StripFrom(s, AfterEscape(s, i))
    ELSE <<s[i]>> \o StripFrom(s, i + 1)

\* mutant of strip_ansi: an escape that ends the text is kept
strip_ansi_KeepLastEscape(text) ==
    IF text # <<>> /\ text[Len(text)] = ESC
    THEN StripFrom(text, 1) \o <<ESC>>
    ELSE StripFrom(text, 1)

\* mutant of strip_ansi: a '[' outside an escape sequence is removed as well
strip_ansi_DropBracket(text) ==
    SelectSeq(StripFrom(text, 1), LAMBDA c : c # LBRACKET)

strip_ansi(text) == StripFrom(text, 1)

\* String::from_utf8_lossy: ASCII bytes decode to themselves, a byte that
\* cannot start a UTF-8 sequence becomes U+FFFD
from_utf8_lossy(bytes) ==
    [i \in 1..Len(bytes) |-> IF bytes[i] < 128 THEN bytes[i] ELSE 65533]

RECURSIVE Flatten(_)
Flatten(ss) == IF ss = <<>> THEN <<>> ELSE Head(ss) \o Flatten(Tail(ss))

(* ------------------ AppState: the tabs and the list -------------------- *)
\* two tabs; a tree is the sequence of its nodes, a NodeId is an index into
\* it, the root is node 1; names are texts of code points
SPACE == 32
TabIds == {0, 1}
TabTrees ==
    [t \in TabIds |->
       IF t = 0
       THEN << [name |-> <<>>,       children |-> <<2, 3>>,    multi_select |-> TRUE],
               [name |-> <<97, 98>>, children |-> <<4, 5, 7>>, multi_select |-> TRUE],
               [name |-> <<66, 97>>, children |-> <<>>,        multi_select |-> TRUE],
               [name |-> <<99>>,     children |-> <<6>>,       multi_select |-> TRUE],
               [name |-> <<97, 99>>, children |-> <<>>,        multi_select |-> FALSE],
               [name |-> <<98>>,     children |-> <<>>,        multi_select |-> TRUE],
               [name |-> <<99, 97>>, children |-> <<>>,        multi_select |-> TRUE] >>
       ELSE << [name |-> <<>>,       children |-> <<2, 3>>,    multi_select |-> TRUE],
               [name |-> <<98, 99>>, children |-> <<>>,        multi_select |-> FALSE],
               [name |-> <<65>>,     children |-> <<>>,        multi_select |-> TRUE] >>]

\* tree.root().id()
root_id(t) == 1

\* tree.get(node_id) is Some
HasNode(t, id) == id \in 1..Len(TabTrees[t])

has_children(t, id) == TabTrees[t][id].children # <<>>

\* the Rc<ListNode> of a node
NodeOf(t, id) == [name |-> TabTrees[t][id].name, multi_select |-> TabTrees[t][id].multi_select]

UpEntry == [node_id |-> None, node |-> None, has_children |-> FALSE, is_up_dir |-> TRUE]

NodeEntry(t, id, dir) ==
    [node_id |-> Some(id), node |-> Some(NodeOf(t, id)), has_children |-> dir,
     is_up_dir |-> FALSE]

\* str::to_lowercase on ASCII
to_lowercase(text) ==
    [i \in 1..Len(text) |-> IF text[i] >= 65 /\ text[i] <= 90 THEN text[i] + 32 ELSE text[i]]

\* str::trim
RECURSIVE trim(_)
trim(text) ==
    IF text = <<>> THEN <<>>
    ELSE IF Head(text) = SPACE THEN trim(Tail(text))
    ELSE IF text[Len(text)] = SPACE THEN trim(SubSeq(text, 1, Len(text) - 1))
    ELSE text

\* str::contains
contains(text, query) ==
    \E i \in 0..(Len(text) - Len(query)) : SubSeq(text, i + 1, i + Len(query)) = query

\* Ord for String: a <= b
RECURSIVE NameLeq(_, _)
NameLeq(a, b) ==
    IF a = <<>> THEN TRUE
    ELSE IF b = <<>> THEN FALSE
    ELSE IF Head(a) # Head(b) THEN Head(a) < Head(b)
    ELSE NameLeq(Tail(a), Tail(b))

\* sort_by on the names, stable: e goes behind the entries not greater than it
RECURSIVE InsertByName(_, _)
InsertByName(sorted, e) ==
    IF sorted = <<>> THEN <<e>>
    ELSE IF NameLeq(Head(sorted).node[1].name, e.node[1].name)
         THEN <<Head(sorted)>> \o InsertByName(Tail(sorted), e)
         ELSE <<e>> \o sorted

RECURSIVE SortByName(_)
SortByName(list) ==
    IF list = <<>> THEN <<>>
    ELSE InsertByName(SortByName(SubSeq(list, 1, Len(list) - 1)), list[Len(list)])

\* the `while let Some(node_id) = stack.pop()` loop over one tab's tree
RECURSIVE SearchTree(_, _, _, _)
SearchTree(t, stack, query, found) ==
    IF stack = <<>> THEN found
    ELSE LET id == stack[Len(stack)]
             rest == SubSeq(stack, 1, Len(stack) - 1)
             hit == contains(to_lowercase(TabTrees[t][id].name), query) /\ ~has_children(t, id)
         IN SearchTree(t, rest \o TabTrees[t][id].children, query,
                       IF hit THEN Append(found, NodeEntry(t, id, FALSE)) ELSE found)

\* build_entries: state.entries for the given tab, stack and filter; with an
\* empty stack or a NodeId the tab's tree does not have, unwrap() panics and
\* no list is built
build_entries(tab, stack, text) ==
    IF text = <<>>
    THEN IF stack = <<>> \/ ~HasNode(tab, stack[Len(stack)])
         THEN <<>>
         ELSE LET top == stack[Len(stack)]
                  kids == TabTrees[tab][top].children
              IN (IF Len(stack) > 1 THEN <<UpEntry>> ELSE <<>>)
                 \o [i \in 1..Len(kids) |-> NodeEntry(tab, kids[i], has_children(tab, kids[i]))]
    ELSE SortByName(SearchTree(1, <<root_id(1)>>, to_lowercase(text),
                               SearchTree(0, <<root_id(0)>>, to_lowercase(text), <<>>)))

\* list.selected_rows(): the selected indices in list order
RECURSIVE RowSeq(_)
RowSeq(rows) ==
    IF rows = {} THEN <<>>
    ELSE LET m == CHOOSE x \in rows : \A y \in rows : x <= y
         IN <<m>> \o RowSeq(rows \ {m})

\* the rows collect_selected_commands does not skip
IsLeafRow(list, i) ==
    /\ i \in 1..Len(list)
    /\ ~list[i].is_up_dir
    /\ ~list[i].has_children
    /\ list[i].node # None

\* mutant of collect_selected_commands: nothing is rejected
collect_selected_commands_NoReject(list, rows) ==
    LET leaves == SelectSeq(RowSeq(rows), LAMBDA i : IsLeafRow(list, i))
    IN [commands |-> [k \in 1..Len(leaves) |-> list[leaves[k]].node[1]],
        rejected |-> <<>>]

\* collect_selected_commands: the nodes to run and the names rejected
collect_selected_commands(list, rows) ==
    LET multiple == Cardinality(rows) > 1
        leaves == SelectSeq(RowSeq(rows), LAMBDA i : IsLeafRow(list, i))
        no == SelectSeq(leaves, LAMBDA i : multiple /\ ~list[i].node[1].multi_select)
        yes == SelectSeq(leaves, LAMBDA i : ~(multiple /\ ~list[i].node[1].multi_select))
    IN [commands |-> [k \in 1..Len(yes) |-> list[yes[k]].node[1]],
        rejected |-> [k \in 1..Len(no) |-> list[no[k]].node[1].name]]

(* ------------------------------- state -------------------------------- *)
VARIABLES
    spawnPc,        \* position of the UI thread inside CommandRunner::spawn
    childState,     \* the sh -c child: "running" or "exited"
    exitOk,         \* status.success() of the exited child
    ptyBuf,         \* bytes written by the child, not yet read from the pty
    produced,       \* number of bytes the child has written
    readerPc,       \* reader thread: "idle", "read", "append", "done"
    readerChunk,    \* the filtered chunk the reader is about to append
    rawRead,        \* history: the raw chunks the reader has read, in order
    waitPc,         \* wait thread: "idle", "waiting", "returned", "done", "panicked"
    output,         \* CommandRunner.output
    finished,       \* CommandRunner.finished : Option<bool>
    child_killer,   \* CommandRunner.child_killer : Option<killer>
    killSignals,    \* number of killer.kill() calls issued
    killCalls,      \* number of CommandRunner::kill calls
    ptyInput,       \* the bytes that have reached the pty's write side, in order
    sendCalls,      \* number of CommandRunner::send_input calls
    writerBuf,      \* writer: bytes written and not yet flushed
    typed,          \* history: the texts of the input entry, in call order
    send_result,    \* what the last send_input call returned to its caller
    last_len,       \* the poll timer's offset
    view,           \* output_buffer: the text of the output view
    timer,          \* the poll timer: "unset", "active", "stopped"
    tickPc,         \* inside a poll tick: "idle" or "check"
    savedLogs,      \* contents of the files save_log has written, in order
    status_label,
    stop_sensitive,
    input_sensitive,
    input,          \* strip_ansi's argument
    result,         \* strip_ansi's return value
    filterPc,       \* "off", "call", "done"
    commands,       \* spawn's argument: the selected nodes' commands, in order
    script,         \* spawn's script String
    composeIdx,     \* number of nodes the composing loop has handled
    readCalls,      \* number of read_output_since calls on arbitrary offsets
    readRet,        \* the String the last such call returned
    lockOwner,      \* for each Mutex of CommandRunner: "free" or the thread holding it
    window,         \* the command window: "open" or "closed"
    pty_master,     \* CommandRunner._pty_master: "held" or "dropped"
    current_tab,    \* AppState.current_tab
    visit_stack,    \* AppState.visit_stack
    filter,         \* AppState.filter
    entries,        \* AppState.entries
    multi_select,   \* AppState.multi_select
    selected_rows,  \* list_box.selected_rows(), as a set of indices
    collected,      \* the commands the last collect_selected_commands returned
    rejected,       \* the names it rejected
    launched,       \* the commands last passed to confirm_and_run
    runs,           \* number of Run clicks
    navPc           \* the main window's handlers: "ready" or "panicked"

childVars == <<childState, exitOk, ptyBuf, produced>>
readerVars == <<readerPc, readerChunk, rawRead>>
killVars == <<child_killer, killSignals, killCalls>>
inVars == <<ptyInput, sendCalls, writerBuf, typed, send_result>>
pollVars == <<last_len, view, timer, tickPc>>
widgetVars == <<status_label, stop_sensitive, input_sensitive>>
filterVars == <<input, result, filterPc>>
composeVars == <<commands, script, composeIdx>>
readVars == <<readCalls, readRet>>
\* the variables of the pure functions, which no session action touches
lockVars == <<lockOwner>>
dropVars == <<window, pty_master>>
navVars == <<current_tab, visit_stack, filter, entries, multi_select, selected_rows,
            collected, rejected, launched, runs, navPc>>
pureVars == <<filterVars, composeVars, readVars, lockVars, dropVars, navVars>>
\* the same without the locks
nonLockVars == <<filterVars, composeVars, readVars, dropVars, navVars>>
vars == <<spawnPc, childVars, readerVars, waitPc, output, finished, killVars,
          inVars, pollVars, savedLogs, widgetVars, pureVars>>

\* the shared cells as spawn creates them, the widgets as open_command_window
\* builds them, and threads that have not been started
SessionCells ==
    /\ exitOk = FALSE
    /\ ptyBuf = <<>>
    /\ produced = 0
    /\ readerPc = "idle"
    /\ readerChunk = <<>>
    /\ rawRead = <<>>
    /\ waitPc = "idle"
    /\ output = <<>>
    /\ finished = None
    /\ child_killer = Some("killer")
    /\ killSignals = 0
    /\ killCalls = 0
    /\ ptyInput = <<>>
    /\ sendCalls = 0
    /\ writerBuf = <<>>
    /\ typed = <<>>
    /\ send_result = "none"
    /\ last_len = 0
    /\ view = <<>>
    /\ timer = "unset"
    /\ tickPc = "idle"
    /\ savedLogs = <<>>
    /\ status_label = "Running..."
    /\ stop_sensitive = TRUE
    /\ input_sensitive = TRUE

\* the state at line 1015 of CommandRunner::spawn: the pty is open, the child
\* runs, the shared cells exist, no thread has been started
SessionInit ==
    /\ spawnPc = "spawned"
    /\ childState = "running"
    /\ SessionCells

\* before spawn has opened the pty: no child, no thread
PreSpawn ==
    /\ childState = "unspawned"
    /\ SessionCells

\* the four Mutexes of CommandRunner
Locks == {"output", "writer", "child_killer", "finished"}

\* no thread is inside a critical section
LockOff == lockOwner = [l \in Locks |-> "free"]

\* the window is shown and the runner owns the pty master
DropOff == window = "open" /\ pty_master = "held"

\* the AppState build_ui creates and its first refresh_list
NavOff ==
    /\ current_tab = 0
    /\ visit_stack = <<root_id(0)>>
    /\ filter = <<>>
    /\ entries = build_entries(0, <<root_id(0)>>, <<>>)
    /\ multi_select = FALSE
    /\ selected_rows = {}
    /\ collected = <<>>
    /\ rejected = <<>>
    /\ launched = <<>>
    /\ runs = 0
    /\ navPc = "ready"

\* strip_ansi is not being called
FilterOff ==
    /\ input = <<>>
    /\ result = <<>>
    /\ filterPc = "off"

\* the script is composed: the session was spawned from an empty selection
ComposeOff ==
    /\ commands = <<>>
    /\ script = ""
    /\ composeIdx = 0

\* no read_output_since call besides the poll timer's
ReadOff ==
    /\ readCalls = 0
    /\ readRet = <<>>

Init ==
    /\ SessionInit
    /\ FilterOff
    /\ ComposeOff
    /\ ReadOff
    /\ LockOff
    /\ DropOff
    /\ NavOff

(* ------------------------- CommandRunner::spawn ------------------------ *)
\* thread::spawn of the reader thread
SpawnStartReader ==
    /\ spawnPc = "spawned"
    /\ spawnPc' = "reader_started"
    /\ readerPc' = "read"
    /\ UNCHANGED <<childVars, readerChunk, rawRead, waitPc, output, finished,
                   killVars, inVars, pollVars, savedLogs, widgetVars, pureVars>>

\* thread::spawn of the wait thread
SpawnStartWait ==
    /\ spawnPc = "reader_started"
    /\ spawnPc' = "wait_started"
    /\ waitPc' = "waiting"
    /\ UNCHANGED <<childVars, readerVars, output, finished, killVars, inVars,
                   pollVars, savedLogs, widgetVars, pureVars>>

\* take_writer, Self { .. }; open_command_window then registers the poll timer
SpawnReturn ==
    /\ spawnPc = "wait_started"
    /\ spawnPc' = "returned"
    /\ timer' = "active"
    /\ UNCHANGED <<childVars, readerVars, waitPc, output, finished, killVars,
                   inVars, last_len, view, tickPc, savedLogs, widgetVars, pureVars>>

(* ------------------------------ the child ------------------------------ *)
\* the child writes one of the given bytes to the pty, at most max bytes in all
ChildWriteOf(bytes, max) ==
    /\ childState = "running"
    /\ produced < max
    /\ \E b \in bytes : ptyBuf' = Append(ptyBuf, b)
    /\ produced' = produced + 1
    /\ UNCHANGED <<spawnPc, childState, exitOk, readerVars, waitPc, output, finished,
                   killVars, inVars, pollVars, savedLogs, widgetVars, pureVars>>

ChildWrite == ChildWriteOf(OutBytes, MaxOut)

ChildExit ==
    /\ childState = "running"
    /\ childState' = "exited"
    /\ exitOk' \in BOOLEAN
    /\ UNCHANGED <<spawnPc, ptyBuf, produced, readerVars, waitPc, output, finished,
                   killVars, inVars, pollVars, savedLogs, widgetVars, pureVars>>

(* --------------------------- the reader thread ------------------------- *)
\* String::push_str
push_str(s, chunk) == s \o chunk

\* mutant of ReaderAppend: the chunk replaces the log instead of extending it
ReaderAppend_Overwrite ==
    /\ readerPc = "append"
    /\ output' = readerChunk
    /\ readerChunk' = <<>>
    /\ readerPc' = "read"
    /\ UNCHANGED <<spawnPc, childVars, rawRead, waitPc, finished, killVars, inVars,
                   pollVars, savedLogs, widgetVars, pureVars>>

\* reader.read(&mut buf) returns Ok(size), size > 0; the chunk is decoded and
\* filtered, and is appended only if the filtered chunk is not empty
ReaderRead ==
    /\ readerPc = "read"
    /\ ptyBuf # <<>>
    /\ \E size \in 1..Min(Len(ptyBuf), BufSize) :
         LET chunk == strip_ansi(from_utf8_lossy(SubSeq(ptyBuf, 1, size))) IN
         /\ rawRead' = Append(rawRead, SubSeq(ptyBuf, 1, size))
         /\ ptyBuf' = SubSeq(ptyBuf, size + 1, Len(ptyBuf))
         /\ readerChunk' = chunk
         /\ readerPc' = IF chunk # <<>> THEN "append" ELSE "read"
    /\ UNCHANGED <<spawnPc, childState, exitOk, produced, waitPc, output, finished,
                   killVars, inVars, pollVars, savedLogs, widgetVars, pureVars>>

\* output_clone.lock(); output.push_str(&chunk)
ReaderAppend ==
    /\ readerPc = "append"
    /\ output' = push_str(output, readerChunk)
    /\ readerChunk' = <<>>
    /\ readerPc' = "read"
    /\ UNCHANGED <<spawnPc, childVars, rawRead, waitPc, finished, killVars, inVars,
                   pollVars, savedLogs, widgetVars, pureVars>>

\* mutant of ReaderEof: a zero-length read does not end the loop
ReaderEof_Continue ==
    /\ readerPc = "read"
    /\ childState = "exited"
    /\ ptyBuf = <<>>
    /\ readerPc' = "read"
    /\ UNCHANGED <<spawnPc, childVars, readerChunk, rawRead, waitPc, output, finished,
                   killVars, inVars, pollVars, savedLogs, widgetVars, pureVars>>

\* Ok(size) if size == 0 => break: the pty reports closure after the child's exit
ReaderEof ==
    /\ readerPc = "read"
    /\ childState = "exited"
    /\ ptyBuf = <<>>
    /\ readerPc' = "done"
    /\ UNCHANGED <<spawnPc, childVars, readerChunk, rawRead, waitPc, output, finished,
                   killVars, inVars, pollVars, savedLogs, widgetVars, pureVars>>

\* Err(_) => break: a read error ends the thread whatever is still buffered
ReaderIoError ==
    /\ readerPc = "read"
    /\ readerPc' = "done"
    /\ UNCHANGED <<spawnPc, childVars, readerChunk, rawRead, waitPc, output, finished,
                   killVars, inVars, pollVars, savedLogs, widgetVars, pureVars>>

(* ---------------------------- the wait thread -------------------------- *)
\* child.wait() returns Ok(status) once the child has exited
WaitReturn ==
    /\ waitPc = "waiting"
    /\ childState = "exited"
    /\ waitPc' = "returned"
    /\ UNCHANGED <<spawnPc, childVars, readerVars, output, finished, killVars, inVars,
                   pollVars, savedLogs, widgetVars, pureVars>>

\* child.wait() returns Err: unwrap() panics and the thread ends
WaitFail ==
    /\ waitPc = "waiting"
    /\ waitPc' = "panicked"
    /\ UNCHANGED <<spawnPc, childVars, readerVars, output, finished, killVars, inVars,
                   pollVars, savedLogs, widgetVars, pureVars>>

\* finished_clone.lock(); *finished = Some(status.success())
WaitSetFinished ==
    /\ waitPc = "returned"
    /\ finished' = Some(exitOk)
    /\ waitPc' = "done"
    /\ UNCHANGED <<spawnPc, childVars, readerVars, output, killVars, inVars,
                   pollVars, savedLogs, widgetVars, pureVars>>

(* ----------------------- open_command_window (UI) ---------------------- *)
\* the UI thread runs one handler at a time, after spawn has returned
UiIdle == spawnPc = "returned" /\ tickPc = "idle"

\* mutant of read_output_since: an offset past the end is moved to the end
read_output_since_Clamp(out, offset) ==
    IF offset >= Len(out)
    THEN [chunk |-> <<>>, offset |-> Len(out)]
    ELSE [chunk |-> SubSeq(out, offset + 1, Len(out)), offset |-> Len(out)]

\* mutant of read_output_since: the offset is not advanced
read_output_since_NoAdvance(out, offset) ==
    IF offset >= Len(out)
    THEN [chunk |-> <<>>, offset |-> offset]
    ELSE [chunk |-> SubSeq(out, offset + 1, Len(out)), offset |-> offset]

\* CommandRunner::read_output_since: the returned String and the new *offset
read_output_since(out, offset) ==
    IF offset >= Len(out)
    THEN [chunk |-> <<>>, offset |-> offset]
    ELSE [chunk |-> SubSeq(out, offset + 1, Len(out)), offset |-> Len(out)]

\* poll timer, first half: read_output_since and the insert into the buffer
PollRead ==
    /\ UiIdle
    /\ timer = "active"
    /\ LET r == read_output_since(output, last_len) IN
         /\ last_len' = r.offset
         /\ view' = IF r.chunk # <<>> THEN view \o r.chunk ELSE view
    /\ tickPc' = "check"
    /\ UNCHANGED <<spawnPc, childVars, readerVars, waitPc, output, finished, killVars,
                   inVars, timer, savedLogs, widgetVars, pureVars>>

\* mutant of PollCheck: the Stop button stays sensitive
PollCheck_KeepsStop ==
    /\ tickPc = "check"
    /\ tickPc' = "idle"
    /\ IF finished # None
       THEN /\ status_label' = IF finished = Some(TRUE)
                               THEN "Finished successfully."
                               ELSE "Finished with errors."
            /\ stop_sensitive' = stop_sensitive
            /\ input_sensitive' = FALSE
            /\ timer' = "stopped"
       ELSE UNCHANGED <<status_label, stop_sensitive, input_sensitive, timer>>
    /\ UNCHANGED <<spawnPc, childVars, readerVars, waitPc, output, finished, killVars,
                   inVars, last_len, view, savedLogs, pureVars>>

\* poll timer, second half: the completion check
PollCheck ==
    /\ tickPc = "check"
    /\ tickPc' = "idle"
    /\ IF finished # None
       THEN /\ status_label' = IF finished = Some(TRUE)
                               THEN "Finished successfully."
                               ELSE "Finished with errors."
            /\ stop_sensitive' = FALSE
            /\ input_sensitive' = FALSE
            /\ timer' = "stopped"
       ELSE UNCHANGED <<status_label, stop_sensitive, input_sensitive, timer>>
    /\ UNCHANGED <<spawnPc, childVars, readerVars, waitPc, output, finished, killVars,
                   inVars, last_len, view, savedLogs, pureVars>>

\* mutant of Kill: the handle is used in place and stays in the cell
Kill_NoTake ==
    /\ UiIdle
    /\ killCalls < MaxKills
    /\ killCalls' = killCalls + 1
    /\ IF child_killer # None
       THEN killSignals' = killSignals + 1 /\ UNCHANGED child_killer
       ELSE UNCHANGED <<child_killer, killSignals>>
    /\ UNCHANGED <<spawnPc, childVars, readerVars, waitPc, output, finished, inVars,
                   pollVars, savedLogs, widgetVars, pureVars>>

\* mutant of Kill: stopping also records the run as failed
Kill_MarksFailed ==
    /\ UiIdle
    /\ killCalls < MaxKills
    /\ killCalls' = killCalls + 1
    /\ IF child_killer # None
       THEN child_killer' = None /\ killSignals' = killSignals + 1
       ELSE UNCHANGED <<child_killer, killSignals>>
    /\ finished' = Some(FALSE)
    /\ UNCHANGED <<spawnPc, childVars, readerVars, waitPc, output, inVars,
                   pollVars, savedLogs, widgetVars, pureVars>>

\* stop button handler (and Ctrl+K): CommandRunner::kill
Kill ==
    /\ UiIdle
    /\ killCalls < MaxKills
    /\ killCalls' = killCalls + 1
    /\ IF child_killer # None
       THEN child_killer' = None /\ killSignals' = killSignals + 1
       ELSE UNCHANGED <<child_killer, killSignals>>
    /\ UNCHANGED <<spawnPc, childVars, readerVars, waitPc, output, finished, inVars,
                   pollVars, savedLogs, widgetVars, pureVars>>

\* Write::write_all on the writer; Write::flush hands the buffer to the pty
write_all(buf, bytes) == buf \o bytes

\* mutant of SendInputOf: the handler passes the text without the newline
SendInputOf_NoNewline(texts, max) ==
    /\ UiIdle
    /\ input_sensitive
    /\ sendCalls < max
    /\ sendCalls' = sendCalls + 1
    /\ \E text \in texts :
         /\ typed' = Append(typed, text)
         /\ ptyInput' = IF childState = "running"
                        THEN ptyInput \o write_all(writerBuf, text)
                        ELSE ptyInput
    /\ writerBuf' = <<>>
    /\ send_result' = "()"
    /\ UNCHANGED <<spawnPc, childVars, readerVars, waitPc, output, finished, killVars,
                   pollVars, savedLogs, widgetVars, pureVars>>

\* input entry handler for a non-empty text, at most max times:
\* CommandRunner::send_input(&format!("{text}\n")) does write_all and flush
\* under the writer lock; both fail once the child has exited, their results
\* are dropped and the function returns ()
SendInputOf(texts, max) ==
    /\ UiIdle
    /\ input_sensitive
    /\ sendCalls < max
    /\ sendCalls' = sendCalls + 1
    /\ \E text \in texts :
         /\ typed' = Append(typed, text)
         /\ ptyInput' = IF childState = "running"
                        THEN ptyInput \o write_all(writerBuf, Append(text, NEWLINE))
                        ELSE ptyInput
    /\ writerBuf' = <<>>
    /\ send_result' = "()"
    /\ UNCHANGED <<spawnPc, childVars, readerVars, waitPc, output, finished, killVars,
                   pollVars, savedLogs, widgetVars, pureVars>>

SendInput == SendInputOf(InputTexts, MaxInputs)

\* the timestamp, to the second, of a save_log call: the second of the previous
\* save or the one after it
Stamps == IF savedLogs = <<>> THEN {0}
          ELSE {savedLogs[Len(savedLogs)].path, savedLogs[Len(savedLogs)].path + 1}

\* the content of the file at path p: what the last write to that path wrote
RECURSIVE FileContent(_, _)
FileContent(logs, p) ==
    IF logs = <<>> THEN None
    ELSE IF logs[Len(logs)].path = p THEN Some(logs[Len(logs)].content)
    ELSE FileContent(SubSeq(logs, 1, Len(logs) - 1), p)

\* mutant of SaveLogOkUpTo: the file gets the text shown in the output view
SaveLogOkUpTo_Displayed(max) ==
    /\ UiIdle
    /\ Len(savedLogs) < max
    /\ \E stamp \in Stamps :
         savedLogs' = Append(savedLogs, [path |-> stamp, content |-> view])
    /\ status_label' = "Saved log to path"
    /\ UNCHANGED <<spawnPc, childVars, readerVars, waitPc, output, finished, killVars,
                   inVars, pollVars, stop_sensitive, input_sensitive, pureVars>>

\* save button handler, at most max times: CommandRunner::save_log succeeds;
\* std::fs::write replaces the file linutil_log_<stamp>.log by the whole log
SaveLogOkUpTo(max) ==
    /\ UiIdle
    /\ Len(savedLogs) < max
    /\ \E stamp \in Stamps :
         savedLogs' = Append(savedLogs, [path |-> stamp, content |-> output])
    /\ status_label' = "Saved log to path"
    /\ UNCHANGED <<spawnPc, childVars, readerVars, waitPc, output, finished, killVars,
                   inVars, pollVars, stop_sensitive, input_sensitive, pureVars>>

\* save button handler: std::fs::write fails
SaveLogErrUpTo(max) ==
    /\ UiIdle
    /\ Len(savedLogs) < max
    /\ status_label' = "Failed to save log: err"
    /\ UNCHANGED <<spawnPc, childVars, readerVars, waitPc, output, finished, killVars,
                   inVars, pollVars, savedLogs, stop_sensitive, input_sensitive, pureVars>>

SaveLogOk == SaveLogOkUpTo(MaxSaves)

SaveLogErr == SaveLogErrUpTo(MaxSaves)

Next ==
    \/ SpawnStartReader
    \/ SpawnStartWait
    \/ SpawnReturn
    \/ ChildWrite
    \/ ChildExit
    \/ ReaderRead
    \/ ReaderAppend
    \/ ReaderEof
    \/ ReaderIoError
    \/ WaitReturn
    \/ WaitFail
    \/ WaitSetFinished
    \/ PollRead
    \/ PollCheck
    \/ Kill
    \/ SendInput
    \/ SaveLogOk
    \/ SaveLogErr

Spec == Init /\ [][Next]_vars

(* --------------- the session with one kind of UI handler --------------- *)
\* the steps of spawn, the child, the two threads and the poll timer
SessionStep ==
    \/ SpawnStartReader
    \/ SpawnStartWait
    \/ SpawnReturn
    \/ ChildWrite
    \/ ChildExit
    \/ ReaderRead
    \/ ReaderAppend
    \/ ReaderEof
    \/ ReaderIoError
    \/ WaitReturn
    \/ WaitFail
    \/ WaitSetFinished
    \/ PollRead
    \/ PollCheck

\* number of input entry activations, and the texts typed ("a", "b")
MaxSends == 2
TypedTexts == {<<97>>, <<98>>}

SendTyped == SendInputOf(TypedTexts, MaxSends)

\* the session and the input entry (Stop and Save Log are not clicked)
InputNext == SessionStep \/ SendTyped

InputSpec == Init /\ [][InputNext]_vars

\* number of Save Log clicks
MaxSaveCalls == 2

SaveAgainOk == SaveLogOkUpTo(MaxSaveCalls)

SaveAgainErr == SaveLogErrUpTo(MaxSaveCalls)

\* the session and the save button (Stop is not clicked, no input is typed)
SaveNext == SessionStep \/ SaveAgainOk \/ SaveAgainErr

SaveSpec == Init /\ [][SaveNext]_vars

\* the wait thread, the poll timer, the reader thread and spawn keep running:
\* the OS schedules every thread, the GLib main loop fires the 50 ms timer
LiveSpec ==
    /\ Init
    /\ [][SessionStep]_vars
    /\ WF_vars(SpawnStartReader \/ SpawnStartWait \/ SpawnReturn)
    /\ WF_vars(ReaderRead \/ ReaderAppend \/ ReaderEof)
    /\ WF_vars(WaitReturn \/ WaitSetFinished)
    /\ WF_vars(PollRead \/ PollCheck)

\* the session and the Stop button, with the threads and the timer running
StopNext == SessionStep \/ Kill

StopLiveSpec ==
    /\ Init
    /\ [][StopNext]_vars
    /\ WF_vars(SpawnStartReader \/ SpawnStartWait \/ SpawnReturn)
    /\ WF_vars(ReaderRead \/ ReaderAppend \/ ReaderEof)
    /\ WF_vars(WaitReturn \/ WaitSetFinished)
    /\ WF_vars(PollRead \/ PollCheck)

(* -------------- the reader thread on enumerated streams ---------------- *)
\* length of the enumerated raw streams
MaxStream == 4

\* the child has written a whole stream and exited; the reader thread reads
\* it in chunks of any sizes
ChunkInit ==
    /\ spawnPc = "returned"
    /\ childState = "exited"
    /\ exitOk = TRUE
    /\ ptyBuf \in SeqsUpTo(FilterChars, MaxStream)
    /\ produced = Len(ptyBuf)
    /\ readerPc = "read"
    /\ readerChunk = <<>>
    /\ rawRead = <<>>
    /\ waitPc = "waiting"
    /\ output = <<>>
    /\ finished = None
    /\ child_killer = Some("killer")
    /\ killSignals = 0
    /\ killCalls = 0
    /\ ptyInput = <<>>
    /\ sendCalls = 0
    /\ writerBuf = <<>>
    /\ typed = <<>>
    /\ send_result = "none"
    /\ last_len = 0
    /\ view = <<>>
    /\ timer = "active"
    /\ tickPc = "idle"
    /\ savedLogs = <<>>
    /\ status_label = "Running..."
    /\ stop_sensitive = TRUE
    /\ input_sensitive = TRUE
    /\ FilterOff
    /\ ComposeOff
    /\ ReadOff
    /\ LockOff
    /\ DropOff
    /\ NavOff

ChunkNext == ReaderRead \/ ReaderAppend \/ ReaderEof

ChunkSpec == ChunkInit /\ [][ChunkNext]_vars

(* ---------------- the end of the session's owner ---------------------- *)
\* the runner is an Rc shared by the timer closure and the handler closures:
\* it is dropped, and with it _pty_master, when the window is closed and the
\* timer closure has returned ControlFlow::Break

\* close button handler (and Ctrl+W): window.close()
CloseWindow ==
    /\ UiIdle
    /\ window = "open"
    /\ window' = "closed"
    /\ pty_master' = IF timer = "stopped" THEN "dropped" ELSE pty_master
    /\ UNCHANGED <<spawnPc, childVars, readerVars, waitPc, output, finished, killVars,
                   inVars, pollVars, savedLogs, widgetVars, filterVars, composeVars,
                   readVars, lockVars, navVars>>

\* GLib removes the timer source after Break and drops its closure
TimerRemoved ==
    /\ tickPc = "idle"
    /\ timer = "stopped"
    /\ window = "closed"
    /\ pty_master = "held"
    /\ pty_master' = "dropped"
    /\ UNCHANGED <<spawnPc, childVars, readerVars, waitPc, output, finished, killVars,
                   inVars, pollVars, savedLogs, widgetVars, filterVars, composeVars,
                   readVars, lockVars, window, navVars>>

DropNext == SessionStep \/ CloseWindow \/ TimerRemoved

DropSpec == Init /\ [][DropNext]_vars

(* ------------- CommandRunner::spawn: the pty and the child ------------- *)
\* spawn has composed the script; nothing exists yet
SpawnInit ==
    /\ spawnPc = "start"
    /\ PreSpawn
    /\ FilterOff
    /\ ComposeOff
    /\ ReadOff
    /\ LockOff
    /\ DropOff
    /\ NavOff

\* pty_system.openpty(..) returns Ok
SpawnOpenPty ==
    /\ spawnPc = "start"
    /\ spawnPc' = "pty_open"
    /\ UNCHANGED <<childVars, readerVars, waitPc, output, finished, killVars,
                   inVars, pollVars, savedLogs, widgetVars, pureVars>>

\* pty_system.openpty(..) returns Err: unwrap() panics in the UI thread
SpawnOpenPtyFail ==
    /\ spawnPc = "start"
    /\ spawnPc' = "aborted"
    /\ UNCHANGED <<childVars, readerVars, waitPc, output, finished, killVars,
                   inVars, pollVars, savedLogs, widgetVars, pureVars>>

\* pair.slave.spawn_command(cmd) returns Ok: the child runs
SpawnCommand ==
    /\ spawnPc = "pty_open"
    /\ spawnPc' = "spawned"
    /\ childState' = "running"
    /\ UNCHANGED <<exitOk, ptyBuf, produced, readerVars, waitPc, output, finished,
                   killVars, inVars, pollVars, savedLogs, widgetVars, pureVars>>

\* pair.slave.spawn_command(cmd) returns Err: unwrap() panics in the UI thread
SpawnCommandFail ==
    /\ spawnPc = "pty_open"
    /\ spawnPc' = "aborted"
    /\ UNCHANGED <<childVars, readerVars, waitPc, output, finished, killVars,
                   inVars, pollVars, savedLogs, widgetVars, pureVars>>

\* pair.master.try_clone_reader() returns Err: unwrap() panics, the child runs
SpawnCloneReaderFail ==
    /\ spawnPc = "spawned"
    /\ spawnPc' = "aborted"
    /\ UNCHANGED <<childVars, readerVars, waitPc, output, finished, killVars,
                   inVars, pollVars, savedLogs, widgetVars, pureVars>>

SpawnNext ==
    \/ SpawnOpenPty
    \/ SpawnOpenPtyFail
    \/ SpawnCommand
    \/ SpawnCommandFail
    \/ SpawnCloneReaderFail
    \/ SessionStep

SpawnSpec == SpawnInit /\ [][SpawnNext]_vars

(* ---------- read_output_since on enumerated logs and offsets ----------- *)
\* length of the enumerated logs, number of calls, characters of the logs
MaxLog == 3
MaxReads == 2
LogChars == {97, 98}

\* a log of up to MaxLog characters and a caller's offset, which may lie past
\* the end of the log
ReadInit ==
    /\ spawnPc = "returned"
    /\ childState = "running"
    /\ exitOk = FALSE
    /\ ptyBuf = <<>>
    /\ produced = 0
    /\ readerPc = "read"
    /\ readerChunk = <<>>
    /\ rawRead = <<>>
    /\ waitPc = "waiting"
    /\ output \in SeqsUpTo(LogChars, MaxLog)
    /\ finished = None
    /\ child_killer = Some("killer")
    /\ killSignals = 0
    /\ killCalls = 0
    /\ ptyInput = <<>>
    /\ sendCalls = 0
    /\ writerBuf = <<>>
    /\ typed = <<>>
    /\ send_result = "none"
    /\ last_len \in 0..(MaxLog + 1)
    /\ view = <<>>
    /\ timer = "active"
    /\ tickPc = "idle"
    /\ savedLogs = <<>>
    /\ status_label = "Running..."
    /\ stop_sensitive = TRUE
    /\ input_sensitive = TRUE
    /\ FilterOff
    /\ ComposeOff
    /\ ReadOff
    /\ LockOff
    /\ DropOff
    /\ NavOff

\* a call of read_output_since(&mut offset)
ReadCall ==
    /\ readCalls < MaxReads
    /\ readCalls' = readCalls + 1
    /\ LET r == read_output_since(output, last_len) IN
         /\ readRet' = r.chunk
         /\ last_len' = r.offset
    /\ UNCHANGED <<spawnPc, childVars, readerVars, waitPc, output, finished, killVars,
                   inVars, view, timer, tickPc, savedLogs, widgetVars, filterVars,
                   composeVars, lockVars, dropVars, navVars>>

\* the reader thread appends one character between two calls
LogGrow ==
    /\ Len(output) < MaxLog
    /\ \E c \in LogChars : output' = push_str(output, <<c>>)
    /\ UNCHANGED <<spawnPc, childVars, readerVars, waitPc, finished, killVars,
                   inVars, pollVars, savedLogs, widgetVars, pureVars>>

ReadNext == ReadCall \/ LogGrow

ReadSpec == ReadInit /\ [][ReadNext]_vars

(* ------------------- the session with its Mutexes ---------------------- *)
\* number of Stop, Enter and Save Log events, and of bytes the child writes,
\* while the locks are watched
MaxUiOps == 1
MaxLockOut == 1

ChildWriteOne == ChildWriteOf({LBRACKET}, MaxLockOut)

\* Mutex::lock by thread t: granted when nobody holds the lock
lock(l, t) ==
    /\ lockOwner[l] = "free"
    /\ lockOwner' = [lockOwner EXCEPT ![l] = t]

\* the MutexGuard is dropped
unlock(l) == lockOwner' = [lockOwner EXCEPT ![l] = "free"]

\* reader thread: output_clone.lock()
ReaderLock ==
    /\ readerPc = "append"
    /\ lock("output", "reader")
    /\ readerPc' = "append_locked"
    /\ UNCHANGED <<spawnPc, childVars, readerChunk, rawRead, waitPc, output, finished,
                   killVars, inVars, pollVars, savedLogs, widgetVars, nonLockVars>>

\* reader thread: output.push_str(&chunk), end of the guard's scope
ReaderPush ==
    /\ readerPc = "append_locked"
    /\ output' = push_str(output, readerChunk)
    /\ readerChunk' = <<>>
    /\ readerPc' = "read"
    /\ unlock("output")
    /\ UNCHANGED <<spawnPc, childVars, rawRead, waitPc, finished, killVars, inVars,
                   pollVars, savedLogs, widgetVars, nonLockVars>>

\* wait thread: finished_clone.lock()
WaitLock ==
    /\ waitPc = "returned"
    /\ lock("finished", "wait")
    /\ waitPc' = "store_locked"
    /\ UNCHANGED <<spawnPc, childVars, readerVars, output, finished, killVars, inVars,
                   pollVars, savedLogs, widgetVars, nonLockVars>>

\* wait thread: *finished = Some(status.success()), end of the guard's scope
WaitStore ==
    /\ waitPc = "store_locked"
    /\ finished' = Some(exitOk)
    /\ waitPc' = "done"
    /\ unlock("finished")
    /\ UNCHANGED <<spawnPc, childVars, readerVars, output, killVars, inVars,
                   pollVars, savedLogs, widgetVars, nonLockVars>>

\* the UI thread starts a handler: it is at the handler's lock() call
UiStart(pc) ==
    /\ UiIdle
    /\ tickPc' = pc
    /\ UNCHANGED <<spawnPc, childVars, readerVars, waitPc, output, finished, killVars,
                   inVars, last_len, view, timer, savedLogs, widgetVars, pureVars>>

\* the UI thread's lock() call is granted
UiLock(pc, l, next) ==
    /\ tickPc = pc
    /\ lock(l, "ui")
    /\ tickPc' = next
    /\ UNCHANGED <<spawnPc, childVars, readerVars, waitPc, output, finished, killVars,
                   inVars, last_len, view, timer, savedLogs, widgetVars, nonLockVars>>

\* the 50 ms timer fires: read_output_since is at self.output.lock()
TickStart == timer = "active" /\ UiStart("read_wait")

TickLockOutput == UiLock("read_wait", "output", "read_locked")

\* mutant of TickRead: the guard on output outlives read_output_since
TickRead_NoRelease ==
    /\ tickPc = "read_locked"
    /\ LET r == read_output_since(output, last_len) IN
         /\ last_len' = r.offset
         /\ view' = IF r.chunk # <<>> THEN view \o r.chunk ELSE view
    /\ tickPc' = "check"
    /\ UNCHANGED <<spawnPc, childVars, readerVars, waitPc, output, finished, killVars,
                   inVars, timer, savedLogs, widgetVars, pureVars>>

\* read_output_since under the lock, its return, and the insert into the buffer
TickRead ==
    /\ tickPc = "read_locked"
    /\ LET r == read_output_since(output, last_len) IN
         /\ last_len' = r.offset
         /\ view' = IF r.chunk # <<>> THEN view \o r.chunk ELSE view
    /\ tickPc' = "check"
    /\ unlock("output")
    /\ UNCHANGED <<spawnPc, childVars, readerVars, waitPc, output, finished, killVars,
                   inVars, timer, savedLogs, widgetVars, nonLockVars>>

\* finished() is at self.finished.lock()
TickLockFinished == UiLock("check", "finished", "check_locked")

\* finished() copies the cell and returns; the tick acts on the copy
TickCheck ==
    /\ tickPc = "check_locked"
    /\ tickPc' = "idle"
    /\ unlock("finished")
    /\ IF finished # None
       THEN /\ status_label' = IF finished = Some(TRUE)
                               THEN "Finished successfully."
                               ELSE "Finished with errors."
            /\ stop_sensitive' = FALSE
            /\ input_sensitive' = FALSE
            /\ timer' = "stopped"
       ELSE UNCHANGED <<status_label, stop_sensitive, input_sensitive, timer>>
    /\ UNCHANGED <<spawnPc, childVars, readerVars, waitPc, output, finished, killVars,
                   inVars, last_len, view, savedLogs, nonLockVars>>

\* handler events so far
UiOps == killCalls + sendCalls + Len(savedLogs)

\* Stop is clicked: kill is at self.child_killer.lock()
KillStart == UiOps < MaxUiOps /\ UiStart("kill_wait")

KillLock == UiLock("kill_wait", "child_killer", "kill_locked")

\* killer.take(), killer.kill(), end of the guard's scope
KillTake ==
    /\ tickPc = "kill_locked"
    /\ tickPc' = "idle"
    /\ unlock("child_killer")
    /\ killCalls' = killCalls + 1
    /\ IF child_killer # None
       THEN child_killer' = None /\ killSignals' = killSignals + 1
       ELSE UNCHANGED <<child_killer, killSignals>>
    /\ UNCHANGED <<spawnPc, childVars, readerVars, waitPc, output, finished, inVars,
                   last_len, view, timer, savedLogs, widgetVars, nonLockVars>>

\* Enter in the input entry: send_input is at self.writer.lock()
SendStart == input_sensitive /\ UiOps < MaxUiOps /\ UiStart("send_wait")

SendLock == UiLock("send_wait", "writer", "send_locked")

\* writer.write_all, writer.flush, end of the guard's scope
SendWrite ==
    /\ tickPc = "send_locked"
    /\ tickPc' = "idle"
    /\ unlock("writer")
    /\ sendCalls' = sendCalls + 1
    /\ \E text \in InputTexts :
         /\ typed' = Append(typed, text)
         /\ ptyInput' = IF childState = "running"
                        THEN ptyInput \o write_all(writerBuf, Append(text, NEWLINE))
                        ELSE ptyInput
    /\ writerBuf' = <<>>
    /\ send_result' = "()"
    /\ UNCHANGED <<spawnPc, childVars, readerVars, waitPc, output, finished, killVars,
                   last_len, view, timer, savedLogs, widgetVars, nonLockVars>>

\* Save Log is clicked: save_log is at self.output.lock()
SaveStart == UiOps < MaxUiOps /\ UiStart("save_wait")

SaveLock == UiLock("save_wait", "output", "save_locked")

\* std::fs::write under the guard on output, then the status text
SaveWrite ==
    /\ tickPc = "save_locked"
    /\ tickPc' = "idle"
    /\ unlock("output")
    /\ \/ /\ \E stamp \in Stamps :
               savedLogs' = Append(savedLogs, [path |-> stamp, content |-> output])
          /\ status_label' = "Saved log to path"
       \/ /\ status_label' = "Failed to save log: err"
          /\ UNCHANGED savedLogs
    /\ UNCHANGED <<spawnPc, childVars, readerVars, waitPc, output, finished, killVars,
                   inVars, last_len, view, timer, stop_sensitive, input_sensitive,
                   nonLockVars>>

LockNext ==
    \/ SpawnStartReader
    \/ SpawnStartWait
    \/ SpawnReturn
    \/ ChildWriteOne
    \/ ChildExit
    \/ ReaderRead
    \/ ReaderLock
    \/ ReaderPush
    \/ ReaderEof
    \/ ReaderIoError
    \/ WaitReturn
    \/ WaitFail
    \/ WaitLock
    \/ WaitStore
    \/ TickStart
    \/ TickLockOutput
    \/ TickRead
    \/ TickLockFinished
    \/ TickCheck
    \/ KillStart
    \/ KillLock
    \/ KillTake
    \/ SendStart
    \/ SendLock
    \/ SendWrite
    \/ SaveStart
    \/ SaveLock
    \/ SaveWrite

LockSpec == Init /\ [][LockNext]_vars

\* every thread that can take a step eventually takes one: the OS schedules
\* the threads and grants a free Mutex to a thread waiting for it, the GLib
\* main loop runs the handler it has started
LockLiveSpec ==
    /\ Init
    /\ [][LockNext]_vars
    /\ WF_vars(ReaderLock \/ ReaderPush)
    /\ WF_vars(WaitLock \/ WaitStore)
    /\ WF_vars(TickLockOutput \/ TickRead \/ TickLockFinished \/ TickCheck)
    /\ WF_vars(KillLock \/ KillTake \/ SendLock \/ SendWrite \/ SaveLock \/ SaveWrite)

(* ------------------- strip_ansi on enumerated inputs ------------------- *)
FilterInputs == SeqsUpTo(FilterChars, MaxLen) \cup {ColouredHello, EscXabc}

FilterInit ==
    /\ SessionInit
    /\ ComposeOff
    /\ ReadOff
    /\ LockOff
    /\ DropOff
    /\ NavOff
    /\ input \in FilterInputs
    /\ result = <<>>
    /\ filterPc = "call"

FilterCall ==
    /\ filterPc = "call"
    /\ result' = strip_ansi(input)
    /\ filterPc' = "done"
    /\ UNCHANGED <<spawnPc, childVars, readerVars, waitPc, output, finished, killVars,
                   inVars, pollVars, savedLogs, widgetVars, input, composeVars, readVars,
                   lockVars, dropVars, navVars>>

FilterNext == FilterCall

FilterSpec == FilterInit /\ [][FilterNext]_vars

(* ------------------- build_ui: the main window ------------------------- *)
\* number of Run clicks, and the texts typed into the search entry
MaxRuns == 2
SearchTexts == {<<>>, <<SPACE>>, <<97>>, <<SPACE, 98>>}

sessionVars == <<spawnPc, childVars, readerVars, waitPc, output, finished, killVars,
                 inVars, pollVars, savedLogs, widgetVars>>
nonNavVars == <<filterVars, composeVars, readVars, lockVars, dropVars>>

\* the main window is shown and no command window has been opened
NavInit ==
    /\ spawnPc = "no_window"
    /\ PreSpawn
    /\ FilterOff
    /\ ComposeOff
    /\ ReadOff
    /\ LockOff
    /\ DropOff
    /\ NavOff

\* refresh_list: build_entries, and the list box is filled anew
refresh_list(tab, stack, text) ==
    /\ entries' = build_entries(tab, stack, text)
    /\ selected_rows' = {}

\* mutant of TabSelected: the stack of the old tab is kept
TabSelected_KeepStack(t) ==
    /\ navPc = "ready"
    /\ t # current_tab
    /\ current_tab' = t
    /\ visit_stack' = visit_stack
    /\ filter' = <<>>
    /\ refresh_list(t, visit_stack, <<>>)
    /\ UNCHANGED <<sessionVars, nonNavVars, multi_select, collected, rejected, launched,
                   runs, navPc>>

\* tab_list row_selected handler
TabSelected(t) ==
    /\ navPc = "ready"
    /\ t # current_tab
    /\ current_tab' = t
    /\ visit_stack' = <<root_id(t)>>
    /\ filter' = <<>>
    /\ refresh_list(t, <<root_id(t)>>, <<>>)
    /\ UNCHANGED <<sessionVars, nonNavVars, multi_select, collected, rejected, launched,
                   runs, navPc>>

\* search_entry changed handler
SearchChanged(text) ==
    /\ navPc = "ready"
    /\ filter' = trim(text)
    /\ refresh_list(current_tab, visit_stack, trim(text))
    /\ UNCHANGED <<sessionVars, nonNavVars, current_tab, visit_stack, multi_select,
                   collected, rejected, launched, runs, navPc>>

\* back button handler (and Alt+Left). With a filter it clears the filter and
\* calls search_entry.set_text("") while it holds the RefCell borrow: if GTK
\* emits `changed` inside set_text, the changed handler's borrow_mut panics
BackClicked ==
    /\ navPc = "ready"
    /\ IF filter # <<>>
       THEN /\ filter' = <<>>
            /\ visit_stack' = visit_stack
            /\ \/ /\ navPc' = "panicked"
                  /\ UNCHANGED <<entries, selected_rows>>
               \/ /\ navPc' = navPc
                  /\ refresh_list(current_tab, visit_stack, <<>>)
       ELSE /\ visit_stack' = IF Len(visit_stack) > 1
                              THEN SubSeq(visit_stack, 1, Len(visit_stack) - 1)
                              ELSE visit_stack
            /\ refresh_list(current_tab, visit_stack', filter)
            /\ UNCHANGED <<filter, navPc>>
    /\ UNCHANGED <<sessionVars, nonNavVars, current_tab, multi_select, collected,
                   rejected, launched, runs>>

\* multi_select_toggle toggled handler
MultiSelectToggled ==
    /\ navPc = "ready"
    /\ multi_select' = ~multi_select
    /\ refresh_list(current_tab, visit_stack, filter)
    /\ UNCHANGED <<sessionVars, nonNavVars, current_tab, visit_stack, filter, collected,
                   rejected, launched, runs, navPc>>

\* the user changes the selection: one row at most unless multi_select
RowsSelected(rows) ==
    /\ navPc = "ready"
    /\ rows # selected_rows
    /\ multi_select \/ Cardinality(rows) <= 1
    /\ selected_rows' = rows
    /\ UNCHANGED <<sessionVars, nonNavVars, current_tab, visit_stack, filter, entries,
                   multi_select, collected, rejected, launched, runs, navPc>>

\* list_box row_activated handler
RowActivated(idx) ==
    /\ navPc = "ready"
    /\ idx \in 1..Len(entries)
    /\ LET entry == entries[idx] IN
       IF entry.is_up_dir
       THEN /\ visit_stack' = IF Len(visit_stack) > 1
                              THEN SubSeq(visit_stack, 1, Len(visit_stack) - 1)
                              ELSE visit_stack
            /\ refresh_list(current_tab, visit_stack', filter)
            /\ UNCHANGED launched
       ELSE IF entry.has_children /\ filter = <<>>
       THEN /\ visit_stack' = IF entry.node_id # None
                              THEN Append(visit_stack, entry.node_id[1])
                              ELSE visit_stack
            /\ refresh_list(current_tab, visit_stack', filter)
            /\ UNCHANGED launched
       ELSE /\ entry.node # None
            /\ launched' = <<entry.node[1]>>
            /\ UNCHANGED <<visit_stack, entries, selected_rows>>
    /\ UNCHANGED <<sessionVars, nonNavVars, current_tab, filter, multi_select, collected,
                   rejected, runs, navPc>>

\* run button handler (and Ctrl+R)
RunClicked ==
    /\ navPc = "ready"
    /\ runs < MaxRuns
    /\ runs' = runs + 1
    /\ LET r == collect_selected_commands(entries, selected_rows) IN
         /\ collected' = r.commands
         /\ rejected' = r.rejected
         /\ launched' = IF r.commands = <<>> THEN launched ELSE r.commands
    /\ UNCHANGED <<sessionVars, nonNavVars, current_tab, visit_stack, filter, entries,
                   multi_select, selected_rows, navPc>>

NavNext ==
    \/ \E t \in TabIds : TabSelected(t)
    \/ \E text \in SearchTexts : SearchChanged(text)
    \/ BackClicked
    \/ MultiSelectToggled
    \/ \E rows \in SUBSET (1..Len(entries)) : RowsSelected(rows)
    \/ \E idx \in 1..Len(entries) : RowActivated(idx)
    \/ RunClicked

NavSpec == NavInit /\ [][NavNext]_vars

(* ---------------- CommandRunner::spawn: the script ---------------------- *)
\* number of selected nodes in the enumerated selections
MaxCommands == 3

\* Command::Raw(prompt)
Raw(prompt) == [kind |-> "Raw", prompt |-> prompt]
\* Command::LocalFile { executable, args, file }; a path is its components
\* and whether it starts at the root
LocalFile(executable, args, file) ==
    [kind |-> "LocalFile", executable |-> executable, args |-> args, file |-> file]
\* Command::None
NoCommand == [kind |-> "None"]

PathOf(root, comps) == [root |-> root, comps |-> comps]

\* Path::parent: None for the root and for the empty path, else the path
\* without its last component
parent(file) ==
    IF file.comps = <<>> THEN None
    ELSE Some(PathOf(file.root, SubSeq(file.comps, 1, Len(file.comps) - 1)))

RECURSIVE JoinComps(_)
JoinComps(comps) ==
    IF comps = <<>> THEN ""
    ELSE IF Len(comps) = 1 THEN comps[1]
    ELSE comps[1] \o "/" \o JoinComps(Tail(comps))

\* Path::display
display(path) == (IF path.root THEN "/" ELSE "") \o JoinComps(path.comps)

\* for arg in args { script.push(' '); script.push_str(arg); }
RECURSIVE PushArgs(_)
PushArgs(args) ==
    IF args = <<>> THEN "" ELSE " " \o Head(args) \o PushArgs(Tail(args))

\* mutants of Fragment: a raw line without its newline; a local file without
\* the cd line
Fragment_NoNewline(command) ==
    IF command.kind = "Raw" THEN command.prompt
    ELSE IF command.kind = "LocalFile"
    THEN (IF parent(command.file) # None
          THEN "cd " \o display(parent(command.file)[1]) \o "\n" ELSE "")
         \o command.executable \o PushArgs(command.args) \o "\n"
    ELSE ""

Fragment_NoCd(command) ==
    IF command.kind = "Raw" THEN command.prompt \o "\n"
    ELSE IF command.kind = "LocalFile"
    THEN command.executable \o PushArgs(command.args) \o "\n"
    ELSE ""

\* the arms of `match &node.command`: what one node adds to the script
Fragment(command) ==
    IF command.kind = "Raw" THEN command.prompt \o "\n"
    ELSE IF command.kind = "LocalFile"
    THEN (IF parent(command.file) # None
          THEN "cd " \o display(parent(command.file)[1]) \o "\n" ELSE "")
         \o command.executable \o PushArgs(command.args) \o "\n"
    ELSE ""

\* [RawShellLine("echo 1"), RawShellLine("echo 2")]
TwoEchoes == <<Raw("echo 1"), Raw("echo 2")>>
\* LocalExecutable{program:"run.sh", args:[], sourceFile:"/a/b/run.sh"}
RunSh == LocalFile("run.sh", <<>>, PathOf(TRUE, <<"a", "b", "run.sh">>))

\* the commands of the enumerated selections: raw lines, no command, local
\* files with an absolute path, a relative one-component path and the root
CommandSet ==
    { Raw("echo 1"), Raw("echo 2"), NoCommand, RunSh,
      LocalFile("x", <<"-a", "b">>, PathOf(FALSE, <<"x">>)),
      LocalFile("y", <<"c">>, PathOf(TRUE, <<>>)) }

ComposeInit ==
    /\ spawnPc = "compose"
    /\ PreSpawn
    /\ FilterOff
    /\ ReadOff
    /\ LockOff
    /\ DropOff
    /\ NavOff
    /\ commands \in SeqsUpTo(CommandSet, MaxCommands)
    /\ script = ""
    /\ composeIdx = 0

\* one iteration of `for node in commands`
ComposeStep ==
    /\ spawnPc = "compose"
    /\ composeIdx < Len(commands)
    /\ script' = script \o Fragment(commands[composeIdx + 1])
    /\ composeIdx' = composeIdx + 1
    /\ UNCHANGED <<spawnPc, childVars, readerVars, waitPc, output, finished, killVars,
                   inVars, pollVars, savedLogs, widgetVars, filterVars, commands, readVars,
                   lockVars, dropVars, navVars>>

\* the loop is over: cmd.arg(script)
ComposeDone ==
    /\ spawnPc = "compose"
    /\ composeIdx = Len(commands)
    /\ spawnPc' = "start"
    /\ UNCHANGED <<childVars, readerVars, waitPc, output, finished, killVars,
                   inVars, pollVars, savedLogs, widgetVars, pureVars>>

ComposeNext == ComposeStep \/ ComposeDone

ComposeSpec == ComposeInit /\ [][ComposeNext]_vars

(* ------------------------------- claims -------------------------------- *)
\* C1: the strings read_output_since has returned to the poller, concatenated
\* (the text of the view), are exactly the log from 0 up to the poller's
\* offset: nothing is returned twice and nothing is skipped.
C1_ReadPartition ==
    /\ last_len <= Len(output)
    /\ view = SubSeq(output, 1, last_len)

\* the poller has read some output and the reader has appended more since
C1_Witness ==
    /\ last_len >= 1
    /\ Len(output) > last_len
    /\ view = SubSeq(output, 1, last_len)

\* C2 as stated: the outcome is unset at the step in which spawn returns, and
\* once it is set no step changes it.
C2_Original ==
    [][ /\ (spawnPc # "returned" /\ spawnPc' = "returned" => finished' = None)
        /\ (finished # None => finished' = finished) ]_vars

\* C2 amended: the outcome is unset as long as spawn has not started the wait
\* thread, it changes only from unset to Some(true) or Some(false), and once
\* set no step of any thread or handler changes it.
C2_SetOnce ==
    /\ [](waitPc = "idle" => finished = None)
    /\ [][ /\ (finished # None => finished' = finished)
           /\ (finished' # finished => finished' \in {Some(TRUE), Some(FALSE)}) ]_vars

\* the outcome was set, the poller saw it and stopped, and handlers ran
C2_Witness ==
    /\ finished # None
    /\ timer = "stopped"
    /\ killCalls >= 1
    /\ savedLogs # <<>>
    /\ readerPc = "done"

\* C3: the outcome is set only after the child has exited and then matches the
\* exit status, and once the child has exited and the wait thread has ended
\* the outcome is set.
C3_Original ==
    /\ (finished # None => childState = "exited" /\ finished = Some(exitOk))
    /\ (childState = "exited" /\ waitPc \in {"done", "panicked"} => finished # None)

\* C4: the log only grows by appending, only the reader's append step changes
\* it, and it is the filtered chunks in the order the reader read them.
C4_AppendOnly ==
    /\ [](output \o readerChunk =
            Flatten([i \in 1..Len(rawRead) |-> strip_ansi(from_utf8_lossy(rawRead[i]))]))
    /\ [][ /\ IsPrefix(output, output')
           /\ (output' # output =>
                 /\ readerPc = "append" /\ readerPc' = "read"
                 /\ UNCHANGED <<waitPc, finished, killVars, inVars, pollVars, savedLogs>>) ]_vars

\* two chunks were appended and every other operation has run
C4_Witness ==
    /\ Len(rawRead) >= 2
    /\ Len(output) >= 2
    /\ killCalls >= 1
    /\ sendCalls >= 1
    /\ savedLogs # <<>>
    /\ last_len >= 1
    /\ finished # None

\* C5: over any number of kill calls the signal is issued at most once, the
\* handle is absent after a call and stays absent, and a call that finds the
\* handle absent changes nothing of the session.
C5_KillIdempotent ==
    /\ [](killSignals <= 1 /\ (child_killer = None <=> killSignals = 1))
    /\ [][ /\ (child_killer = None => child_killer' = None)
           /\ (killCalls' = killCalls + 1 => child_killer' = None)
           /\ (killCalls' = killCalls + 1 /\ child_killer = None =>
                 UNCHANGED <<spawnPc, childVars, readerVars, waitPc, output, finished,
                             child_killer, killSignals, inVars, pollVars, savedLogs,
                             widgetVars>>) ]_vars

\* kill was called twice and signalled once
C5_Witness == killCalls = 2 /\ killSignals = 1 /\ child_killer = None

\* C6: a kill call made after the child has exited issues no signal.
C6_Original ==
    [][childState = "exited" /\ killCalls' = killCalls + 1 => killSignals' = killSignals]_vars

\* C7: at the step in which the poller stops, everything appended to the log
\* is in the output view.
C7_Original ==
    [][timer = "active" /\ timer' = "stopped" => view' = output']_vars

\* C8: for an input whose first escape starts a CSI sequence (escape, '[', any
\* chars outside '@'..'~', one char inside it), strip_ansi returns the text
\* before the escape followed by the filtered text after the final char, which
\* is that text itself when it holds no escape; "\x1b[31mHello\x1b[0m" gives
\* "Hello".
C8_CsiRemoved ==
    filterPc = "done" =>
      /\ \A i \in 1..Len(input), j \in 1..Len(input) :
           ( /\ j >= i + 2
             /\ NoEsc(SubSeq(input, 1, i - 1))
             /\ input[i] = ESC
             /\ input[i + 1] = LBRACKET
             /\ \A k \in (i + 2)..(j - 1) : input[k] \notin 64..126
             /\ input[j] \in 64..126 )
           => LET pre == SubSeq(input, 1, i - 1)
                  post == SubSeq(input, j + 1, Len(input)) IN
              /\ result = pre \o strip_ansi(post)
              /\ (NoEsc(post) => result = pre \o post)
      /\ (input = ColouredHello => result = Hello)

\* the spec's example has been filtered
C8_Witness == filterPc = "done" /\ input = ColouredHello /\ result = Hello

\* C9 as stated: an escape, a char other than '[' and then text gives only the
\* text; "\x1bXabc" gives "abc".
C9_Original ==
    filterPc = "done" =>
      /\ (Len(input) >= 2 /\ input[1] = ESC /\ input[2] \notin {ESC, LBRACKET}
            /\ NoEsc(Tail(input))
          => result = Tail(Tail(input)))
      /\ (input = EscXabc => result = <<97, 98, 99>>)

\* C9 amended: an escape, a char other than '[' and then text gives that char
\* followed by the text; "\x1bXabc" gives "Xabc".
C9_EscapeThenChar ==
    filterPc = "done" =>
      /\ (Len(input) >= 2 /\ input[1] = ESC /\ input[2] \notin {ESC, LBRACKET}
            /\ NoEsc(Tail(input))
          => result = Tail(input))
      /\ (input = EscXabc => result = <<88, 97, 98, 99>>)

C9_Witness == filterPc = "done" /\ input = EscXabc /\ result = <<88, 97, 98, 99>>

\* C10: for the first escape of the input, when it is not followed by '[', only
\* that escape is dropped: the result is the text before it followed by the
\* filtered rest, which is the rest itself when it holds no further escape.
C10_LoneEscape ==
    filterPc = "done" =>
      \A i \in 1..Len(input) :
        ( /\ NoEsc(SubSeq(input, 1, i - 1))
          /\ input[i] = ESC
          /\ (i = Len(input) \/ input[i + 1] # LBRACKET) )
        => LET pre == SubSeq(input, 1, i - 1)
               rest == SubSeq(input, i + 1, Len(input)) IN
           /\ result = pre \o strip_ansi(rest)
           /\ (NoEsc(rest) => result = pre \o rest)

\* "1\x1bm1" has been filtered to "1m1"
C10_Witness == filterPc = "done" /\ input = <<49, 27, 109, 49>> /\ result = <<49, 109, 49>>

\* C11: an input without any escape character is returned unchanged.
C11_PlainUnchanged == filterPc = "done" /\ NoEsc(input) => result = input

\* "1[m1[" has been filtered and came back as it was
C11_Witness ==
    filterPc = "done" /\ input = <<49, 91, 109, 49, 91>> /\ result = <<49, 91, 109, 49, 91>>

\* the fragment the claims C12 and C13 ascribe to one action
ClaimedFragment(c) ==
    CASE c.kind = "Raw" -> c.prompt \o "\n"
      [] c.kind = "None" -> ""
      [] c.kind = "LocalFile" ->
           LET dirs == SubSeq(c.file.comps, 1, Len(c.file.comps) - 1)
               dir == (IF c.file.root THEN "/" ELSE "") \o
                      (IF dirs = <<>> THEN ""
                       ELSE IF Len(dirs) = 1 THEN dirs[1]
                       ELSE IF Len(dirs) = 2 THEN dirs[1] \o "/" \o dirs[2]
                       ELSE "?")
               line == IF c.args = <<>> THEN c.executable
                       ELSE IF Len(c.args) = 1 THEN c.executable \o " " \o c.args[1]
                       ELSE IF Len(c.args) = 2
                            THEN c.executable \o " " \o c.args[1] \o " " \o c.args[2]
                       ELSE "?"
           IN (IF c.file.comps # <<>> THEN "cd " \o dir \o "\n" ELSE "") \o line \o "\n"

RECURSIVE ClaimedScript(_)
ClaimedScript(cs) ==
    IF cs = <<>> THEN "" ELSE ClaimedFragment(Head(cs)) \o ClaimedScript(Tail(cs))

\* C12: after every iteration the script is the concatenation, in list order,
\* of one fragment per action handled so far: a raw line is its text and a
\* newline, no command is nothing, the empty list gives the empty script, and
\* the two echo lines give "echo 1\necho 2\n".
C12_ScriptIsConcatenation ==
    /\ script = ClaimedScript(SubSeq(commands, 1, composeIdx))
    /\ (spawnPc = "start" /\ commands = <<>> => script = "")
    /\ (spawnPc = "start" /\ commands = TwoEchoes => script = "echo 1\necho 2\n")

\* a selection with a repeated raw line and a no-op has been composed
C12_Witness ==
    /\ spawnPc = "start"
    /\ commands = <<Raw("echo 1"), NoCommand, Raw("echo 1")>>
    /\ script = "echo 1\necho 1\n"

\* C13: the iteration that handles a local file adds the line "cd <parent>"
\* only if the file has a parent, then the program and its arguments separated
\* by single spaces; run.sh in /a/b gives "cd /a/b\nrun.sh\n".
C13_LocalFileFragment ==
    /\ (composeIdx >= 1 /\ commands[composeIdx].kind = "LocalFile" =>
          script = ClaimedScript(SubSeq(commands, 1, composeIdx - 1))
                     \o ClaimedFragment(commands[composeIdx]))
    /\ (spawnPc = "start" /\ commands = <<RunSh>> => script = "cd /a/b\nrun.sh\n")
    /\ (spawnPc = "start" /\ commands = <<LocalFile("y", <<"c">>, PathOf(TRUE, <<>>))>>
          => script = "y c\n")

\* the spec's example has been composed
C13_Witness == spawnPc = "start" /\ commands = <<RunSh>> /\ script = "cd /a/b\nrun.sh\n"

C15_Original ==
    [][sendCalls' = sendCalls + 1 /\ childState = "exited" =>
         /\ send_result' = "DeliveryFailed"
         /\ UNCHANGED <<output, finished, child_killer>>]_vars

\* C18: every save_log call writes the whole log of that moment to its file;
\* what successive calls write, and what files of different paths hold, is
\* ordered by prefix, the later extending the earlier.
C18_SavePrefix ==
    /\ [](\A i \in 1..Len(savedLogs), j \in 1..Len(savedLogs) :
            i < j =>
              /\ IsPrefix(savedLogs[i].content, savedLogs[j].content)
              /\ (savedLogs[i].path # savedLogs[j].path =>
                    IsPrefix(FileContent(savedLogs, savedLogs[i].path)[1],
                             FileContent(savedLogs, savedLogs[j].path)[1])))
    /\ [][Len(savedLogs') = Len(savedLogs) + 1 =>
            /\ savedLogs'[Len(savedLogs')].content = output
            /\ FileContent(savedLogs', savedLogs'[Len(savedLogs')].path) = Some(output)
            /\ output' = output]_vars

\* two saves in different seconds with output appended in between
C18_Witness ==
    /\ Len(savedLogs) = 2
    /\ savedLogs[1].path # savedLogs[2].path
    /\ Len(savedLogs[1].content) >= 1
    /\ Len(savedLogs[2].content) > Len(savedLogs[1].content)

\* C16: a failing openpty or spawn_command is reported to the caller of spawn:
\* the process is not aborted, and without a session no child runs.
C16_Original ==
    /\ spawnPc # "aborted"
    /\ (childState = "unspawned" => readerPc = "idle" /\ waitPc = "idle")

\* C17: after a failed wait the outcome eventually leaves Unset and the poll
\* timer eventually stops.
C17_Original == (waitPc = "panicked") ~> (finished # None /\ timer = "stopped")

\* C20: a read_output_since call with the offset at or past the end of the log
\* returns the empty string and leaves the offset unchanged; any other call
\* returns the text from the offset on and sets the offset to the log length;
\* no step lowers the offset, and no step moves an offset that is within the
\* log past the end of the log.
C20_ReadOffset ==
    /\ [][readCalls' = readCalls + 1 =>
            IF last_len >= Len(output)
            THEN readRet' = <<>> /\ last_len' = last_len
            ELSE /\ readRet' = SubSeq(output, last_len + 1, Len(output))
                 /\ last_len' = Len(output)]_vars
    /\ [][last_len' >= last_len]_vars
    /\ [][last_len <= Len(output) => last_len' <= Len(output')]_vars

\* a call past the end returned the empty string and left the offset alone
\* after an earlier state where the same offset was used
C20_Witness ==
    /\ readCalls = MaxReads
    /\ last_len > Len(output)
    /\ readRet = <<>>

\* C21: the outcome changes only in the wait thread's store; the reader's
\* steps, kill, send_input, save_log and the poll tick (read_output_since and
\* finished) leave it as it is, and kill does not wait for the child.
C21_SingleWriter ==
    /\ [][finished' # finished => waitPc = "returned" /\ waitPc' = "done"]_vars
    /\ [][ \/ readerPc' # readerPc
           \/ killCalls' # killCalls
           \/ sendCalls' # sendCalls
           \/ savedLogs' # savedLogs
           \/ tickPc' # tickPc
           => finished' = finished ]_vars
    /\ [][killCalls' = killCalls + 1 => childState' = childState /\ waitPc' = waitPc]_vars

\* kill has signalled a running child and the outcome is still unset
C21_Witness ==
    /\ killSignals = 1
    /\ child_killer = None
    /\ childState = "running"
    /\ finished = None
    /\ sendCalls >= 1
    /\ savedLogs # <<>>

\* the locks thread t holds
Held(t) == {l \in Locks : lockOwner[l] = t}

\* C22: in every state each of the reader thread, the wait thread and the UI
\* thread holds at most one of the four locks.
C22_OneLockAtATime ==
    \A t \in {"reader", "wait", "ui"} : Cardinality(Held(t)) <= 1

\* two threads are inside critical sections of different locks at once
C22_Witness ==
    /\ lockOwner["output"] = "reader"
    /\ lockOwner["finished"] = "ui"

\* C23: a poll tick that has started gets the lock on output, then the lock on
\* finished, and returns; and a thread holding a lock is never itself waiting
\* for a lock.
C23_TickReturns ==
    /\ (tickPc \in {"read_wait", "read_locked", "check", "check_locked"}) ~> (tickPc = "idle")
    /\ [](Held("ui") # {} => tickPc \in {"read_locked", "check_locked", "kill_locked",
                                         "send_locked", "save_locked"})
    /\ [](Held("reader") # {} => readerPc = "append_locked")
    /\ [](Held("wait") # {} => waitPc = "store_locked")

\* a tick waits for the lock on output, which the reader thread holds, while
\* the wait thread holds the lock on finished
C23_Witness ==
    /\ tickPc = "read_wait"
    /\ lockOwner["output"] = "reader"
    /\ lockOwner["finished"] = "wait"

\* C24: once the child has exited the reader thread ends; the step that ends
\* it is a read of the reader itself and changes neither the outcome, the log
\* nor the status text; after it the log never changes; a kill call leaves
\* the reader where it is.
C24_ReaderTerminates ==
    /\ (childState = "exited") ~> (readerPc = "done")
    /\ [][readerPc # "done" /\ readerPc' = "done" =>
            /\ readerPc = "read"
            /\ UNCHANGED <<finished, output, status_label, killVars>>]_vars
    /\ [][readerPc = "done" => readerPc' = "done" /\ output' = output]_vars
    /\ [][killCalls' # killCalls => readerPc' = readerPc /\ output' = output]_vars

\* Stop was clicked, the child has exited, the reader appended output and ended
C24_Witness ==
    /\ readerPc = "done"
    /\ killSignals = 1
    /\ childState = "exited"
    /\ ptyBuf = <<>>
    /\ Len(output) >= 1

\* C25: when the runner's pty master is dropped, the reader thread and the
\* wait thread have ended.
C25_Original ==
    pty_master = "dropped" => readerPc = "done" /\ waitPc \in {"done", "panicked"}

\* the texts the status label takes
RunningText == "Running..."
SaveTexts == {"Saved log to path", "Failed to save log: err"}
TerminalText(f) == IF f = Some(TRUE) THEN "Finished successfully." ELSE "Finished with errors."

\* C26 as stated: the status text is the running text as long as the outcome
\* is unset, and the matching terminal text once the poller has stopped.
C26_Original ==
    /\ (finished = None => status_label = RunningText)
    /\ (timer = "stopped" => status_label = TerminalText(finished))

\* C26 amended: as long as the outcome is unset the Stop button and the entry
\* are sensitive, polling goes on and the status text is the running text or
\* the message of a save; the tick that sees the outcome sets the matching
\* terminal text, disables both widgets and stops the timer; afterwards only a
\* save changes the status text, and a save changes nothing else of the view.
C26_StatusShown ==
    /\ [](finished = None =>
            /\ stop_sensitive /\ input_sensitive /\ timer # "stopped"
            /\ status_label \in {RunningText} \cup SaveTexts)
    /\ [](timer = "stopped" =>
            /\ finished # None /\ ~stop_sensitive /\ ~input_sensitive
            /\ status_label \in {TerminalText(finished)} \cup SaveTexts)
    /\ [][tickPc = "check" /\ tickPc' = "idle" /\ finished # None =>
            /\ status_label' = TerminalText(finished)
            /\ ~stop_sensitive' /\ ~input_sensitive' /\ timer' = "stopped"]_vars
    /\ [][status_label' # status_label /\ status_label' \in SaveTexts =>
            UNCHANGED <<timer, stop_sensitive, input_sensitive, view, output, finished>>]_vars
    /\ [](savedLogs = <<>> /\ status_label # "Failed to save log: err" /\ finished = None
            => status_label = RunningText)

\* the poller has shown the failed outcome and stopped, then a save failed
C26_Witness ==
    /\ timer = "stopped"
    /\ finished = Some(FALSE)
    /\ status_label = "Failed to save log: err"
    /\ ~stop_sensitive

\* the raw stream the reader has read so far
RawStream == Flatten(rawRead)

\* C27: whatever the stream and however it is cut into chunks, the log and the
\* chunk about to be appended hold no escape character, and strip_ansi leaves
\* every filtered chunk and the log as they are.
C27_NoEscapeInLog ==
    /\ NoEsc(output)
    /\ NoEsc(readerChunk)
    /\ strip_ansi(readerChunk) = readerChunk
    /\ strip_ansi(output) = output
    /\ \A i \in 1..Len(rawRead) :
         LET once == strip_ansi(from_utf8_lossy(rawRead[i])) IN
         NoEsc(once) /\ strip_ansi(once) = once

\* a stream with escapes, one of them the last char of a chunk, was read in
\* two chunks and text reached the log
C27_Witness ==
    /\ readerPc = "done"
    /\ Len(rawRead) = 2
    /\ rawRead[1][Len(rawRead[1])] = ESC
    /\ ~NoEsc(rawRead[2])
    /\ output # <<>>

\* C28: when the reader has read the whole stream, the log is strip_ansi of the
\* whole stream, however the stream was cut into chunks.
C28_Original ==
    readerPc = "done" => output = strip_ansi(from_utf8_lossy(RawStream))

\* C29: the navigation stack is never empty, its bottom is the root of the
\* current tab, every id on it is a node of the current tab's tree and a child
\* of the id below it; so build_entries finds the node on top of the stack and
\* lists its children.
C29_StackRooted ==
    /\ visit_stack # <<>>
    /\ visit_stack[1] = root_id(current_tab)
    /\ \A i \in 1..Len(visit_stack) : HasNode(current_tab, visit_stack[i])
    /\ \A i \in 2..Len(visit_stack) :
         \E k \in 1..Len(TabTrees[current_tab][visit_stack[i - 1]].children) :
           TabTrees[current_tab][visit_stack[i - 1]].children[k] = visit_stack[i]
    /\ (filter = <<>> /\ navPc = "ready" =>
          Len(entries) = Len(TabTrees[current_tab][visit_stack[Len(visit_stack)]].children)
                         + (IF Len(visit_stack) > 1 THEN 1 ELSE 0))

\* back in the first tab, two directories deep, after a command of the second
\* tab was launched
C29_Witness ==
    /\ current_tab = 0
    /\ visit_stack = <<1, 2, 4>>
    /\ launched = <<NodeOf(1, 2)>>
    /\ multi_select

\* the position of a node or a name in a list
Occurrences(list, x) == Cardinality({k \in 1..Len(list) : list[k] = x})

\* C30: at a Run click every selected command row goes to exactly one of the
\* two lists, once; with more than one row selected the commands without
\* multi_select go to the rejected list and never to the commands; directory
\* rows and the up row go to neither list; only the commands list is passed
\* on to confirm_and_run.
C30_RejectedNotRun ==
    [][runs' = runs + 1 =>
         LET multiple == Cardinality(selected_rows) > 1
             leaves == {i \in selected_rows : IsLeafRow(entries, i)}
             others == selected_rows \ leaves
         IN /\ \A i \in leaves :
                 LET n == entries[i].node[1] IN
                 /\ Occurrences(collected', n) + Occurrences(rejected', n.name) = 1
                 /\ (multiple /\ ~n.multi_select => Occurrences(collected', n) = 0)
                 /\ (~multiple \/ n.multi_select => Occurrences(rejected', n.name) = 0)
            /\ \A i \in others :
                 entries[i].node # None =>
                   /\ Occurrences(collected', entries[i].node[1]) = 0
                   /\ Occurrences(rejected', entries[i].node[1].name) = 0
            /\ Len(collected') + Len(rejected') = Cardinality(leaves)
            /\ (multiple => \A k \in 1..Len(launched') :
                              launched'[k].multi_select \/ launched' = launched)
            /\ launched' = IF collected' = <<>> THEN launched ELSE collected'
    ]_vars

\* Run was clicked with the up row, a directory, a single-only command and a
\* multi-select command selected
C30_Witness ==
    /\ runs >= 1
    /\ Cardinality(selected_rows) = 4
    /\ collected = <<NodeOf(0, 7)>>
    /\ rejected = <<(<<97, 99>>)>>
    /\ launched = collected

====
